---- MODULE Spec2Model ----
(***************************************************************************)
(* Model of vscan-error-code-analyzer (src/main.py): one process run of    *)
(* main(): parse_args -> VscanErrorAnalyzer(...) -> scan() -> print.       *)
(* Strings that the code inspects (the URL prefix) or builds (printed      *)
(* lines, descriptions) are sequences of tokens; an optional value is <<>> *)
(* (None) or <<v>>.                                                        *)
(***************************************************************************)
EXTENDS Integers, Sequences, FiniteSets, TLC

VARIABLES argv, pc, args, analyzer, logLevel, wire, getCalls, results,
          stdout, exitCode

vars == <<argv, pc, args, analyzer, logLevel, wire, getCalls, results,
          stdout, exitCode>>

\* ------------------------------------------------------------------ bounds
MaxHeaders == 2

\* ------------------------------------------------------------ Python values
None == <<>>
Some(v) == <<v>>

RECURSIVE Digits(_)
\* str(int) for a non-negative integer: its decimal digits
Digits(n) ==
    LET d == <<"0","1","2","3","4","5","6","7","8","9">>
    IN IF n < 10 THEN <<d[n + 1]>> ELSE Digits(n \div 10) \o <<d[(n % 10) + 1]>>

\* str() of an optional status code, as an f-string formats it
StrOfStatus(sc) == IF sc = None THEN <<"None">> ELSE Digits(sc[1])

\* str() of a bool, as an f-string formats it
StrOfBool(b) == IF b THEN <<"True">> ELSE <<"False">>

\* s.startswith(p)
StartsWith(s, p) == Len(s) >= Len(p) /\ SubSeq(s, 1, Len(p)) = p

\* s.startswith((p1, p2, ...))
StartsWithAny(s, ps) == \E p \in ps : StartsWith(s, p)

\* seq contains sub as a contiguous run (Python: sub in seq, for strings)
Contains(seq, sub) ==
    \E i \in 1..(Len(seq) - Len(sub) + 1) : SubSeq(seq, i, i + Len(sub) - 1) = sub

HttpPrefix == <<"h","t","t","p",":","/","/">>
HttpsPrefix == <<"h","t","t","p","s",":","/","/">>

\* ------------------------------------------------------------------ inputs
ExampleUrl == HttpsPrefix \o <<"example.com">>

UrlArgs ==
    { ExampleUrl,
      HttpPrefix \o <<"a">>,
      HttpsPrefix \o <<"self-signed.test">>,
      <<"f","t","p",":","/","/","a">>,
      <<"H","T","T","P",":","/","/","a">>,
      <<"h","t","t","p",":","/","a">>,
      <<"example.com">>,
      <<>> }

DefaultUserAgent == "vscan-error-code-analyzer/1.0"
DefaultTimeout == 10

\* The command lines of a run.  url/timeout/user_agent are None when the
\* option is not given; timeout is the raw token given to -t.
Argvs ==
    [ url : {None} \cup {Some(u) : u \in UrlArgs},
      timeout : {None, Some("5"), Some("abc")},
      user_agent : {None, Some("MyCustomAgent")},
      ignore_ssl : BOOLEAN,
      verbose : BOOLEAN ]

StatusCodes == {200, 301, 399, 400, 401, 403, 404, 405, 418, 499, 500, 503, 599, 600}

HeaderNames == {"Server", "Content-Type", "X-Powered-By"}
HeaderValues == {"nginx", "text/html"}

RECURSIVE HeaderSeqsOfLen(_)
\* header lists of exactly n entries with pairwise distinct names (a dict)
HeaderSeqsOfLen(n) ==
    IF n = 0 THEN {<<>>}
    ELSE { Append(h, <<k, v>>) :
             h \in HeaderSeqsOfLen(n - 1),
             k \in HeaderNames, v \in HeaderValues }

DistinctNames(h) == \A i, j \in 1..Len(h) : i # j => h[i][1] # h[j][1]

HeaderSeqs ==
    { h \in UNION { HeaderSeqsOfLen(n) : n \in 0..MaxHeaders } : DistinctNames(h) }

\* what the network does to the one GET
Faults == {"none", "dns", "refused", "timeout", "unexpected"}
Certs == {"valid", "invalid"}

\* ------------------------------------------------- argparse (setup_argparse)
\* int(token) as argparse's type=int applies it: None when it raises
ParseInt(tok) == IF tok = "5" THEN Some(5) ELSE None

\* parser.parse_args() accepts the command line: the positional url is
\* given and the -t token, if given, converts with int()
ArgvAccepted(a) ==
    /\ a.url # None
    /\ a.timeout # None => ParseInt(a.timeout[1]) # None

\* the namespace parse_args returns for an accepted command line
Namespace(a) ==
    [ url |-> a.url[1],
      user_agent |-> IF a.user_agent = None THEN DefaultUserAgent ELSE a.user_agent[1],
      timeout |-> IF a.timeout = None THEN DefaultTimeout ELSE ParseInt(a.timeout[1])[1],
      ignore_ssl |-> a.ignore_ssl,
      verbose |-> a.verbose ]

NoArgs == [ url |-> <<>>, user_agent |-> "", timeout |-> 0,
            ignore_ssl |-> FALSE, verbose |-> FALSE ]

\* exit status of parser.error()
ArgparseErrorExit == 2

\* ------------------------------------------- VscanErrorAnalyzer.__init__
\* argparse hands every positional over as a str
IsStr(url) == TRUE

\* InitRaises without the prefix test
InitRaisesNoPrefixCheck(url) ==
    IF ~IsStr(url) THEN Some("URL must be a string.") ELSE None

\* the exception the constructor raises, None when it returns
InitRaises(url) ==
    IF ~IsStr(url) THEN Some("URL must be a string.")
    ELSE IF ~StartsWithAny(url, {HttpPrefix, HttpsPrefix})
         THEN Some("URL must start with http:// or https://")
         ELSE None

\* self.error_patterns
error_patterns ==
    [ c \in {400, 401, 403, 404, 405, 500, 503} |->
        CASE c = 400 -> "Possible input validation issues. Check for malformed requests."
          [] c = 401 -> "Authentication required. Investigate authentication mechanisms and bypasses."
          [] c = 403 -> "Forbidden. Potential directory listing vulnerability or access control misconfiguration."
          [] c = 404 -> "Not Found. Check for information disclosure or path traversal vulnerabilities."
          [] c = 405 -> "Method Not Allowed. Investigate allowed methods and potential for exploitation."
          [] c = 500 -> "Internal Server Error. Check server logs for details. Potential for remote code execution or information disclosure."
          [] c = 503 -> "Service Unavailable. Check for denial-of-service vulnerabilities." ]

GenericDescription == "No known vulnerability associated with this status code."

\* the fields __init__ sets
NewAnalyzer(url, user_agent, timeout, ignore_ssl_errors) ==
    [ url |-> url,
      user_agent |-> IF user_agent = "" THEN DefaultUserAgent ELSE user_agent,
      timeout |-> timeout,
      ignore_ssl_errors |-> ignore_ssl_errors ]

NoAnalyzer == [ url |-> <<>>, user_agent |-> "", timeout |-> 0,
                ignore_ssl_errors |-> FALSE ]

\* ------------------------------------------------------ the one GET
\* Verify with the flag not passed on to requests.get
VerifyAlways(self) == TRUE

\* verify= argument of requests.get
Verify(self) == ~self.ignore_ssl_errors

\* exception classes that derive from requests.exceptions.RequestException
RequestExceptions == {"ConnectionError", "Timeout", "SSLError", "HTTPError"}

Raised(type, text) == [kind |-> "raise", type |-> type, text |-> text]
Response(code, headers) == [kind |-> "response", status_code |-> code, headers |-> headers]

\* requests.get(url, verify=verify) against a network that does `fault`
\* and a host that presents `cert` and would answer code/headers
RequestsGet(url, verify, fault, cert, code, headers) ==
    CASE fault = "dns" -> Raised("ConnectionError", <<"Failed to resolve host">>)
      [] fault = "refused" -> Raised("ConnectionError", <<"Connection refused">>)
      [] fault = "timeout" -> Raised("Timeout", <<"Read timed out.">>)
      [] fault = "unexpected" -> Raised("ValueError", <<"unexpected">>)
      [] OTHER ->
           IF StartsWith(url, HttpsPrefix) /\ verify /\ cert = "invalid"
           THEN Raised("SSLError", <<"certificate verify failed">>)
           ELSE Response(code, headers)

\* response.raise_for_status(): the HTTPError it raises, or the response
RaiseForStatus(url, resp) ==
    IF 400 <= resp.status_code /\ resp.status_code < 500
    THEN Raised("HTTPError", Digits(resp.status_code) \o <<" Client Error: ", "for url: ">> \o url)
    ELSE IF 500 <= resp.status_code /\ resp.status_code < 600
    THEN Raised("HTTPError", Digits(resp.status_code) \o <<" Server Error: ", "for url: ">> \o url)
    ELSE resp

\* ErrorResult with the exception text left out of the description
ErrorResultNoText(self, exc) ==
    [ url |-> self.url,
      status_code |-> None,
      description |->
          IF exc.type \in RequestExceptions
          THEN <<"Request error">>
          ELSE <<"An unexpected error occurred">>,
      vulnerable |-> FALSE,
      response_headers |-> <<>> ]

\* the dict the except clauses of scan() return
ErrorResult(self, exc) ==
    [ url |-> self.url,
      status_code |-> None,
      description |->
          (IF exc.type \in RequestExceptions
           THEN <<"Request error: ">>
           ELSE <<"An unexpected error occurred: ">>) \o exc.text,
      vulnerable |-> FALSE,
      response_headers |-> <<>> ]

\* Classify with the membership test negated
ClassifyInverted(self, resp) ==
    IF resp.status_code \notin DOMAIN error_patterns
    THEN [ url |-> self.url,
           status_code |-> Some(resp.status_code),
           description |-> <<GenericDescription>>,
           vulnerable |-> TRUE,
           response_headers |-> resp.headers ]
    ELSE [ url |-> self.url,
           status_code |-> Some(resp.status_code),
           description |-> <<GenericDescription>>,
           vulnerable |-> FALSE,
           response_headers |-> resp.headers ]

\* the dict the if/else on status_code returns
Classify(self, resp) ==
    IF resp.status_code \in DOMAIN error_patterns
    THEN [ url |-> self.url,
           status_code |-> Some(resp.status_code),
           description |-> <<error_patterns[resp.status_code]>>,
           vulnerable |-> TRUE,
           response_headers |-> resp.headers ]
    ELSE [ url |-> self.url,
           status_code |-> Some(resp.status_code),
           description |-> <<GenericDescription>>,
           vulnerable |-> FALSE,
           response_headers |-> resp.headers ]

\* the body of scan() once requests.get has returned or raised `got`
ScanResult(self, got) ==
    IF got.kind = "raise" THEN ErrorResult(self, got)
    ELSE LET checked == RaiseForStatus(self.url, got)
         IN IF checked.kind = "raise" THEN ErrorResult(self, checked)
            ELSE Classify(self, checked)

\* ------------------------------------------------------------- reporter
RECURSIVE HeaderLines(_)
HeaderLines(h) ==
    IF h = <<>> THEN <<>>
    ELSE <<<<"  ", h[1][1], ": ", h[1][2]>>>> \o HeaderLines(Tail(h))

\* bool(result): a dict is true when it has a key
Truthy(result) == DOMAIN result # {}

\* the lines main() prints for a result
ReportLines(result) ==
    IF Truthy(result)
    THEN << <<"URL: ">> \o result.url,
            <<"Status Code: ">> \o StrOfStatus(result.status_code),
            <<"Description: ">> \o result.description,
            <<"Vulnerable: ">> \o StrOfBool(result.vulnerable),
            <<"Response Headers:">> >> \o HeaderLines(result.response_headers)
    ELSE << <<"No results found.">> >>

\* ------------------------------------------------------------ the run
Init ==
    /\ argv \in Argvs
    /\ pc = "start"
    /\ args = NoArgs
    /\ analyzer = NoAnalyzer
    /\ logLevel = "INFO"
    /\ wire = [kind |-> "none"]
    /\ getCalls = 0
    /\ results = <<>>
    /\ stdout = <<>>
    /\ exitCode = None

\* parse_args() returns; -v lowers the root logger to DEBUG
ParseArgsOk ==
    /\ pc = "start"
    /\ ArgvAccepted(argv)
    /\ args' = Namespace(argv)
    /\ logLevel' = IF Namespace(argv).verbose THEN "DEBUG" ELSE "INFO"
    /\ pc' = "parsed"
    /\ UNCHANGED <<argv, analyzer, wire, getCalls, results, stdout, exitCode>>

\* parse_args() rejects the command line: parser.error() exits
ParseArgsError ==
    /\ pc = "start"
    /\ ~ArgvAccepted(argv)
    /\ exitCode' = Some(ArgparseErrorExit)
    /\ pc' = "done"
    /\ UNCHANGED <<argv, args, analyzer, logLevel, wire, getCalls, results, stdout>>

\* VscanErrorAnalyzer(...) returns
ConstructOk ==
    /\ pc = "parsed"
    /\ InitRaises(args.url) = None
    /\ analyzer' = NewAnalyzer(args.url, args.user_agent, args.timeout, args.ignore_ssl)
    /\ pc' = "constructed"
    /\ UNCHANGED <<argv, args, logLevel, wire, getCalls, results, stdout, exitCode>>

\* VscanErrorAnalyzer(...) raises; main prints the error and exits 1
ConstructFail ==
    /\ pc = "parsed"
    /\ InitRaises(args.url) # None
    /\ stdout' = Append(stdout, <<"Error: ", InitRaises(args.url)[1]>>)
    /\ exitCode' = Some(1)
    /\ pc' = "done"
    /\ UNCHANGED <<argv, args, analyzer, logLevel, wire, getCalls, results>>

\* Scan that asks again when the first requests.get raised
ScanWithRetry ==
    /\ pc = "constructed"
    /\ \E fault \in Faults, cert \in Certs, code \in StatusCodes, headers \in HeaderSeqs :
         LET got == RequestsGet(analyzer.url, Verify(analyzer), fault, cert, code, headers)
         IN /\ wire' = [kind |-> got.kind, got |-> got, cert |-> cert,
                       fault |-> IF got.kind = "raise" THEN fault ELSE "none"]
            /\ results' = Append(results, ScanResult(analyzer, got))
            /\ getCalls' = IF got.kind = "raise" THEN getCalls + 2 ELSE getCalls + 1
    /\ pc' = "scanned"
    /\ UNCHANGED <<argv, args, analyzer, logLevel, stdout, exitCode>>

\* analyzer.scan(): one requests.get, raise_for_status, classification
Scan ==
    /\ pc = "constructed"
    /\ \E fault \in Faults, cert \in Certs, code \in StatusCodes, headers \in HeaderSeqs :
         LET got == RequestsGet(analyzer.url, Verify(analyzer), fault, cert, code, headers)
         IN /\ wire' = [kind |-> got.kind, got |-> got, cert |-> cert,
                       fault |-> IF got.kind = "raise" THEN fault ELSE "none"]
            /\ results' = Append(results, ScanResult(analyzer, got))
    /\ getCalls' = getCalls + 1
    /\ pc' = "scanned"
    /\ UNCHANGED <<argv, args, analyzer, logLevel, stdout, exitCode>>

\* Report that exits 1 when the scan produced the error result
ReportFailsOnError ==
    /\ pc = "scanned"
    /\ stdout' = stdout \o ReportLines(results[Len(results)])
    /\ exitCode' = IF results[Len(results)].status_code = None THEN Some(1) ELSE Some(0)
    /\ pc' = "done"
    /\ UNCHANGED <<argv, args, analyzer, logLevel, wire, getCalls, results>>

\* main prints the report and returns
Report ==
    /\ pc = "scanned"
    /\ stdout' = stdout \o ReportLines(results[Len(results)])
    /\ exitCode' = Some(0)
    /\ pc' = "done"
    /\ UNCHANGED <<argv, args, analyzer, logLevel, wire, getCalls, results>>

Next ==
    \/ ParseArgsOk
    \/ ParseArgsError
    \/ ConstructOk
    \/ ConstructFail
    \/ Scan
    \/ Report

Spec == Init /\ [][Next]_vars

\* ================================================================ claims
\* the result scan() returned, once it has returned
Scanned == results # <<>>
result == results[1]

\* the server's answer reached requests.get (a status code was received)
GotResponse == Scanned /\ wire.kind = "response"
\* requests.get itself raised
GetRaised == Scanned /\ wire.kind = "raise"

\* the URL carries one of the two scheme prefixes, character by character
HasSchemePrefix(u) ==
    \/ Len(u) >= 7 /\ u[1] = "h" /\ u[2] = "t" /\ u[3] = "t" /\ u[4] = "p"
                   /\ u[5] = ":" /\ u[6] = "/" /\ u[7] = "/"
    \/ Len(u) >= 8 /\ u[1] = "h" /\ u[2] = "t" /\ u[3] = "t" /\ u[4] = "p"
                   /\ u[5] = "s" /\ u[6] = ":" /\ u[7] = "/" /\ u[8] = "/"

\* parse_args() returned a namespace in this run
Parsed == pc # "start" /\ exitCode # Some(2)

TableCodes == {400, 401, 403, 404, 405, 500, 503}

\* the five fixed lines and the header lines, in the order main prints them
IsReportOf(out, r) ==
    /\ Len(out) = 5 + Len(r.response_headers)
    /\ out[1] = <<"URL: ">> \o r.url
    /\ out[2] = <<"Status Code: ">> \o (IF r.status_code = None THEN <<"None">> ELSE Digits(r.status_code[1]))
    /\ out[3] = <<"Description: ">> \o r.description
    /\ out[4] = <<"Vulnerable: ">> \o (IF r.vulnerable THEN <<"True">> ELSE <<"False">>)
    /\ out[5] = <<"Response Headers:">>
    /\ \A i \in 1..Len(r.response_headers) :
         out[5 + i] = <<"  ", r.response_headers[i][1], ": ", r.response_headers[i][2]>>

\* C1: whenever the server answers with a code of the seven-code table,
\* scan() returns vulnerable = true, that status code and the table's
\* description for it.
C1_TableCodeIsVulnerable ==
    (GotResponse /\ wire.got.status_code \in TableCodes) =>
        /\ result.vulnerable
        /\ result.status_code = Some(wire.got.status_code)
        /\ result.description = <<error_patterns[wire.got.status_code]>>

\* C2: whenever the server answers with a code outside the table, scan()
\* returns vulnerable = false, that status code and the generic description.
C2_OtherCodeIsNotVulnerable ==
    (GotResponse /\ wire.got.status_code \notin TableCodes) =>
        /\ ~result.vulnerable
        /\ result.status_code = Some(wire.got.status_code)
        /\ result.description = <<"No known vulnerability associated with this status code.">>

\* C3: whenever a response is received, whatever its code, scan() returns
\* that code and the response's full header set, never the error result.
C3_ResponseKeepsCodeAndHeaders ==
    GotResponse =>
        /\ result.status_code = Some(wire.got.status_code)
        /\ result.response_headers = wire.got.headers

\* C4: in a run whose URL lacks the http:// or https:// prefix the
\* constructor fails: the run goes from parsing straight to exit code 1
\* with the error printed, no GET is issued and no report is produced.
C4_BadUrlExitsOne ==
    (Parsed /\ ~HasSchemePrefix(args.url)) =>
        /\ pc \in {"parsed", "done"}
        /\ getCalls = 0
        /\ results = <<>>
        /\ wire.kind = "none"
        /\ pc = "done" =>
             /\ exitCode = Some(1)
             /\ stdout = << <<"Error: ", "URL must start with http:// or https://">> >>

C4_Witness ==
    /\ pc = "done"
    /\ args.url = <<"f","t","p",":","/","/","a">>
    /\ exitCode = Some(1)
    /\ stdout # <<>>

\* C5: when requests.get raises (a transport failure or any other
\* exception) scan() still returns: status_code None, vulnerable false, no
\* headers, a description that contains the error text; the report is
\* printed and the exit code is 0.
C5_FailureBecomesResult ==
    GetRaised =>
        /\ result.status_code = None
        /\ ~result.vulnerable
        /\ result.response_headers = <<>>
        /\ Contains(result.description, wire.got.text)
        /\ pc \in {"scanned", "done"}
        /\ pc = "done" => (exitCode = Some(0) /\ IsReportOf(stdout, result))

C5_Witness ==
    /\ pc = "done"
    /\ GetRaised
    /\ wire.fault = "timeout"
    /\ exitCode = Some(0)
    /\ result.description = <<"Request error: ", "Read timed out.">>

\* C6 as stated: every finished run ended with exit code 1 exactly when the
\* URL failed validation, and otherwise with exit code 0 and a printed report.
C6_TwoOutcomesOfEveryRun ==
    pc = "done" =>
        /\ exitCode \in {Some(0), Some(1)}
        /\ exitCode = Some(1) <=> (argv.url # None /\ ~HasSchemePrefix(argv.url[1]))
        /\ exitCode # Some(1) => (exitCode = Some(0) /\ Scanned /\ IsReportOf(stdout, result))

\* C6 amended: every run in which parse_args() returns ends with exit code 1
\* exactly when the URL failed validation, and otherwise with exit code 0
\* and a printed report, whatever the scan met; a run has an exit code
\* exactly when it is over and is never stuck before that.  (A command line
\* the parser rejects ends the run with exit code 2 before validation.)
C6_TwoOutcomesOfParsedRun ==
    /\ (exitCode # None) <=> (pc = "done")
    /\ pc = "done" \/ ENABLED Next
    /\ (pc = "done" /\ Parsed) =>
        /\ exitCode \in {Some(0), Some(1)}
        /\ exitCode = Some(1) <=> ~HasSchemePrefix(args.url)
        /\ exitCode = Some(1) => (~Scanned /\ Len(stdout) = 1)
        /\ exitCode = Some(0) => (Scanned /\ IsReportOf(stdout, result))

C6_Witness ==
    /\ pc = "done"
    /\ Parsed
    /\ exitCode = Some(0)
    /\ Scanned
    /\ result.status_code = None
    /\ wire.fault = "refused"

C8_IgnoreSslSkipsVerification ==
    Scanned =>
        /\ argv.ignore_ssl => ~(wire.kind = "raise" /\ wire.got.type = "SSLError")
        /\ (argv.ignore_ssl /\ wire.fault = "none") => wire.kind = "response"
        /\ (~argv.ignore_ssl /\ wire.cert = "invalid"
              /\ SubSeq(args.url, 1, 8) = <<"h","t","t","p","s",":","/","/">>)
             => (result.status_code = None /\ wire.kind = "raise")

C8_Witness ==
    /\ pc = "done"
    /\ argv.ignore_ssl
    /\ args.url = HttpsPrefix \o <<"self-signed.test">>
    /\ wire.cert = "invalid"
    /\ wire.kind = "response"
    /\ result.status_code = Some(200)

\* C9: a run on https://example.com answered 403 with Server: nginx prints
\* "Status Code: 403", the 403 description, "Vulnerable: True" and
\* "  Server: nginx"; the report is url, status code, description,
\* vulnerable flag and then one indented line per header, in that order.
C9_ExampleReport ==
    (pc = "done" /\ exitCode = Some(0)) =>
        /\ IsReportOf(stdout, result)
        /\ (/\ args.url = ExampleUrl
            /\ wire.kind = "response"
            /\ wire.got.status_code = 403
            /\ wire.got.headers = << <<"Server", "nginx">> >>)
           => /\ stdout[2] = <<"Status Code: ", "4", "0", "3">>
              /\ stdout[3] = <<"Description: ", "Forbidden. Potential directory listing vulnerability or access control misconfiguration.">>
              /\ stdout[4] = <<"Vulnerable: ", "True">>
              /\ \E i \in 1..Len(stdout) : stdout[i] = <<"  ", "Server", ": ", "nginx">>

\* C10: every result of scan() is consistent: vulnerable implies a status
\* code of the table with the table's description; no status code implies
\* not vulnerable and no headers; url is the URL given to the constructor.
C10_ResultConsistent ==
    Scanned =>
        /\ result.vulnerable =>
             /\ result.status_code # None
             /\ result.status_code[1] \in TableCodes
             /\ result.description = <<error_patterns[result.status_code[1]]>>
        /\ result.status_code = None =>
             (~result.vulnerable /\ result.response_headers = <<>>)
        /\ result.url = args.url
        /\ result.url = analyzer.url

C10_Witness ==
    /\ Scanned
    /\ wire.kind = "response"
    /\ wire.got.status_code = 403
    /\ wire.got.headers # <<>>
    /\ result.status_code = None
    /\ result.url = ExampleUrl

====
